---- MODULE Spec2Model ----
(***************************************************************************)
(* Gate-synthesis environment (games/1qbg_1qbsys_simple.py): the           *)
(* GateSynthesis episode controller, its action catalog, the tensor        *)
(* contraction that applies a gate, the observation encoder and the Game   *)
(* wrapper's legal_actions.                                                *)
(*                                                                         *)
(* Numbers.  A complex number is a pair <<re, im>> of integers (every      *)
(* gate used below has Gaussian-integer entries, so the arithmetic is      *)
(* exact).  A tensor is a record [shape, el]: shape is the numpy shape,    *)
(* el the entries in C (row-major) order.  An index tuple is a sequence,  *)
(* numpy's axis k at position k+1.  Axis numbers are numpy's, from 0.      *)
(***************************************************************************)
EXTENDS Integers, Sequences, FiniteSets, TLC

\* ------------------------------------------------------------------ bounds
\* Largest qubit count the constructor is given.
MaxQubits == 3
\* Longest gate list (q1_gates or q2_gates) the constructor is given.
MaxGates == 2
\* Largest max_steps the constructor is given.
MaxSteps == 2
\* Most gate applications followed from one initial operator.
MaxApplications == 2

\* ------------------------------------------------------- complex numbers
CZero == <<0, 0>>
COne == <<1, 0>>
CAdd(x, y) == <<x[1] + y[1], x[2] + y[2]>>
CSub(x, y) == <<x[1] - y[1], x[2] - y[2]>>
CMul(x, y) == <<x[1] * y[1] - x[2] * y[2], x[1] * y[2] + x[2] * y[1]>>
\* |x|^2
CAbs2(x) == x[1] * x[1] + x[2] * x[2]

\* ------------------------------------------------------ sequence helpers
\* Python's lst.insert(pos, x) for 0 <= pos <= len(lst).
ListInsert(lst, pos, x) ==
    [k \in 1..(Len(lst) + 1) |->
        IF k <= pos THEN lst[k] ELSE IF k = pos + 1 THEN x ELSE lst[k - 1]]

\* Python's list(range(n)).
Range(n) == [k \in 1..n |-> k - 1]

\* Python's lst[:-n].
DropLast(lst, n) == SubSeq(lst, 1, Len(lst) - n)

\* The elements of s, in order, whose (0-based) position is not in drop.
RECURSIVE KeepAxes(_, _, _)
KeepAxes(n, drop, k) ==
    IF k >= n THEN <<>>
    ELSE (IF k \in drop THEN <<>> ELSE <<k>>) \o KeepAxes(n, drop, k + 1)

SeqRange(s) == {s[k] : k \in 1..Len(s)}

\* 1-based position of value v in sequence s (v occurs in s).
PosOf(s, v) == CHOOSE k \in 1..Len(s) : s[k] = v

\* ------------------------------------------------------------- tensors
\* Number of entries of an array of the given shape.
RECURSIVE Size(_)
Size(shape) == IF shape = <<>> THEN 1 ELSE Head(shape) * Size(Tail(shape))

\* Entries skipped by one step along axis k (1-based) in C (row-major) order.
RECURSIVE Stride(_, _)
Stride(shape, k) == IF k >= Len(shape) THEN 1 ELSE shape[k + 1] * Stride(shape, k + 1)

\* Position (from 0) of index tuple i in C order, over the first k axes.
RECURSIVE FlatUpTo(_, _, _)
FlatUpTo(shape, i, k) ==
    IF k = 0 THEN 0 ELSE FlatUpTo(shape, i, k - 1) * shape[k] + i[k]

FlatIndex(shape, i) == FlatUpTo(shape, i, Len(shape))

\* The index tuple at position f (from 0) of an array of the given shape.
UnflatIndex(shape, f) ==
    [k \in 1..Len(shape) |-> (f \div Stride(shape, k)) % shape[k]]

\* The array of the given shape whose entry at index tuple i is body[i]:
\* entries are kept in C order, el[f + 1] being the entry at position f.
Ndim(A) == Len(A.shape)
At(A, i) == A.el[FlatIndex(A.shape, i) + 1]

\* Sum of the complex numbers of a sequence.
RECURSIVE CSum(_)
CSum(s) == IF s = <<>> THEN CZero ELSE CAdd(Head(s), CSum(Tail(s)))

\* np.tensordot(A, B, axes=(axA, axB)): axis axA[m] of A is summed against
\* axis axB[m] of B; the result carries A's remaining axes in their order,
\* then B's remaining axes in their order.
TensorDot(A, B, axA, axB) ==
    LET restA == KeepAxes(Ndim(A), SeqRange(axA), 0)
        restB == KeepAxes(Ndim(B), SeqRange(axB), 0)
        nA == Len(restA)
        shape == [k \in 1..(nA + Len(restB)) |->
                    IF k <= nA THEN A.shape[restA[k] + 1]
                    ELSE B.shape[restB[k - nA] + 1]]
        cshape == [m \in 1..Len(axA) |-> A.shape[axA[m] + 1]]
        \* where each axis of A (of B) reads its index: from the summed
        \* tuple c (TRUE) or from the result's tuple i (FALSE), and at which
        \* position
        fromA == [p \in 1..Ndim(A) |->
                    IF (p - 1) \in SeqRange(axA) THEN <<TRUE, PosOf(axA, p - 1)>>
                    ELSE <<FALSE, PosOf(restA, p - 1)>>]
        fromB == [p \in 1..Ndim(B) |->
                    IF (p - 1) \in SeqRange(axB) THEN <<TRUE, PosOf(axB, p - 1)>>
                    ELSE <<FALSE, nA + PosOf(restB, p - 1)>>]
        ia(i, c) == [p \in 1..Ndim(A) |->
                        IF fromA[p][1] THEN c[fromA[p][2]] ELSE i[fromA[p][2]]]
        ib(i, c) == [p \in 1..Ndim(B) |->
                        IF fromB[p][1] THEN c[fromB[p][2]] ELSE i[fromB[p][2]]]
        Entry(i) == CSum([g \in 1..Size(cshape) |->
                            LET c == UnflatIndex(cshape, g - 1)
                            IN CMul(At(A, ia(i, c)), At(B, ib(i, c)))])
    IN [shape |-> shape,
        el |-> [f \in 1..Size(shape) |-> Entry(UnflatIndex(shape, f - 1))]]

\* Whether axes is a permutation of 0..n-1 (np.transpose raises otherwise).
IsPermutation(axes, n) ==
    /\ Len(axes) = n
    /\ SeqRange(axes) = 0..(n - 1)

\* np.transpose reading axes the other way round: axis axes[k] of the result
\* is axis k of A.
TransposeInverse(A, axes) ==
    LET shape == [p \in 1..Ndim(A) |-> A.shape[PosOf(axes, p - 1)]]
        Entry(i) == At(A, [k \in 1..Len(axes) |-> i[axes[k] + 1]])
    IN [shape |-> shape,
        el |-> [f \in 1..Size(shape) |-> Entry(UnflatIndex(shape, f - 1))]]

\* np.transpose(A, axes): axis k of the result is axis axes[k] of A.
Transpose(A, axes) ==
    LET shape == [k \in 1..Len(axes) |-> A.shape[axes[k] + 1]]
        \* the position in axes of each axis of A
        inv == [p \in 1..Ndim(A) |-> PosOf(axes, p - 1)]
        Entry(i) == At(A, [p \in 1..Ndim(A) |-> i[inv[p]]])
    IN [shape |-> shape,
        el |-> [f \in 1..Size(shape) |-> Entry(UnflatIndex(shape, f - 1))]]

\* A.reshape(shape): the same entries in C order under a new shape.
Reshape(A, shape) == [shape |-> shape, el |-> A.el]

\* np.real(A), np.imag(A): arrays of real numbers.
RealPart(A) == [shape |-> A.shape, el |-> [f \in 1..Len(A.el) |-> A.el[f][1]]]
ImagPart(A) == [shape |-> A.shape, el |-> [f \in 1..Len(A.el) |-> A.el[f][2]]]

\* np.array([P, Q]) of two arrays of one shape: a new leading axis of size 2.
Stack2(P, Q) == [shape |-> <<2>> \o P.shape, el |-> P.el \o Q.el]

\* Tolerances are exact fractions: rtol = num / den.  np.allclose(a, b, rtol)
\* holds when every entry has |a - b| <= atol + rtol * |b| with atol = 1e-8.
\* For Gaussian-integer entries |a - b|^2 and |b|^2 are integers, and for
\* |b|^2 < 10^9 the atol term cannot change the verdict, so the test is
\* |a - b|^2 * den^2 <= num^2 * |b|^2, entry by entry; it is written with one
\* division (exact, the left side being an integer) to stay within 32 bits.
AllClose(A, B, t) ==
    /\ A.shape = B.shape
    /\ \A f \in 1..Len(A.el) :
          CAbs2(CSub(A.el[f], B.el[f])) * t.den
              <= (t.num * t.num * CAbs2(B.el[f])) \div t.den

\* --------------------------------------------------------------- gates
\* The gate matrices of games.gs_utils.operators, by name.  Single-qubit
\* gates are (row, column) matrices; SWAP is the rank-4 tensor that exchanges
\* two qubits, CNOT the controlled-NOT with axes (out-A, out-B, in-A, in-B),
\* A the control.
\* The array of shape <<2, ..., 2>> (rank r) with the given entries in C order.
Bits(r, entries) == [shape |-> [k \in 1..r |-> 2], el |-> entries]

GateI == Bits(2, <<COne, CZero,
                   CZero, COne>>)
GateX == Bits(2, <<CZero, COne,
                   COne, CZero>>)
GateZ == Bits(2, <<COne, CZero,
                   CZero, <<-1, 0>> >>)
GateY == Bits(2, <<CZero, <<0, -1>>,
                   <<0, 1>>, CZero>>)
GateSWAP ==
    LET shape == <<2, 2, 2, 2>>
    IN [shape |-> shape,
        el |-> [f \in 1..Size(shape) |->
                  LET i == UnflatIndex(shape, f - 1)
                  IN IF i[1] = i[4] /\ i[2] = i[3] THEN COne ELSE CZero]]
GateCNOT ==
    LET shape == <<2, 2, 2, 2>>
    IN [shape |-> shape,
        el |-> [f \in 1..Size(shape) |->
                  LET i == UnflatIndex(shape, f - 1)
                  IN IF i[1] = i[3] /\ i[2] = (i[4] + i[3]) % 2
                     THEN COne ELSE CZero]]

\* The phase gate S = diag(1, i) and its inverse.
GateS == Bits(2, <<COne, CZero,
                   CZero, <<0, 1>> >>)
GateSdg == Bits(2, <<COne, CZero,
                     CZero, <<0, -1>> >>)

\* Arrays that are no qubit gate tensor: a state vector (rank 1), a rank-3
\* array, and the controlled-NOT written as a 4 x 4 matrix (rank 2).
GateKet0 == Bits(1, <<COne, CZero>>)
GateRank3 == Bits(3, <<COne, CZero, CZero, CZero, CZero, CZero, CZero, COne>>)
GateCNOTMatrix ==
    [shape |-> <<4, 4>>,
     el |-> <<COne, CZero, CZero, CZero,
              CZero, COne, CZero, CZero,
              CZero, CZero, CZero, COne,
              CZero, CZero, COne, CZero>>]

Gate(name) ==
    CASE name = "I" -> GateI
      [] name = "X" -> GateX
      [] name = "Z" -> GateZ
      [] name = "Y" -> GateY
      [] name = "S" -> GateS
      [] name = "Sdg" -> GateSdg
      [] name = "SWAP" -> GateSWAP
      [] name = "CNOT" -> GateCNOT
      [] name = "Ket0" -> GateKet0
      [] name = "Rank3" -> GateRank3
      [] name = "CNOTMatrix" -> GateCNOTMatrix

\* The identity operator on n qubits as a rank-2n tensor: qubit k's row axis
\* is axis 2k and its column axis is axis 2k+1 (I, II, III of the operators
\* module).
IdentityOp(n) ==
    LET shape == [k \in 1..(2 * n) |-> 2]
    IN [shape |-> shape,
        el |-> [f \in 1..Size(shape) |->
                  LET i == UnflatIndex(shape, f - 1)
                  IN IF \A k \in 1..n : i[2 * k - 1] = i[2 * k]
                     THEN COne ELSE CZero]]

\* An operator tensor on n qubits whose entries are pairwise different (and
\* which is no unitary): entry number f in C order is f + (1 - f)i.
CountingOp(n) ==
    LET shape == [k \in 1..(2 * n) |-> 2]
    IN [shape |-> shape, el |-> [f \in 1..Size(shape) |-> <<f, 1 - f>>]]

\* The operator that exchanges two qubits, as a rank-4 operator tensor with
\* axes (row 0, column 0, row 1, column 1).
SwapOp ==
    LET shape == <<2, 2, 2, 2>>
    IN [shape |-> shape,
        el |-> [f \in 1..Size(shape) |->
                  LET i == UnflatIndex(shape, f - 1)
                  IN IF i[1] = i[4] /\ i[3] = i[2] THEN COne ELSE CZero]]

\* ------------------------------------------------------------------ state
VARIABLES
    init_unitary_op,    \* self.init_unitary_op
    curr_unitary_op,    \* self.curr_unitary_op
    target_unitary_op,  \* self.target_unitary_op
    nb_qbits,           \* self.nb_qbits
    final_reward,       \* self.final_reward
    q1_gates,           \* self.q1_gates: a list of gate names
    q2_gates,           \* self.q2_gates: a list of gate names
    full_action_list,   \* self.full_action_list: <<index, <<gate, qubit(s)>>>>
    nb_steps,           \* self.nb_steps
    max_steps,          \* self.max_steps
    tol,                \* self.tol, as [num, den]
    distance_history,   \* self.distance_history
    ret,                \* what the last call returned or raised
    steps_taken,        \* step calls that returned since construction or reset
    prev_unitary_op,    \* the operator before the last step call that returned
    heap,               \* two environments: the array objects, by address
    envs,               \* two environments: the fields of each, arrays by address
    alone               \* two environments: each one's own calls, run alone

vars == <<init_unitary_op, curr_unitary_op, target_unitary_op, nb_qbits,
          final_reward, q1_gates, q2_gates, full_action_list, nb_steps,
          max_steps, tol, distance_history, ret, steps_taken, prev_unitary_op,
          heap, envs, alone>>

\* The fields set at construction and assigned nowhere else.
config == <<init_unitary_op, target_unitary_op, nb_qbits, final_reward,
            q1_gates, q2_gates, full_action_list, max_steps, tol>>

\* The state of the pair of environments, which the calls on the single
\* environment leave alone.
pair == <<heap, envs, alone>>
NoPair == heap = <<>> /\ envs = <<>> /\ alone = <<>>

\* An array that stands for "no observation returned".
NoObs == [shape |-> <<0>>, el |-> <<>>]

\* The record of a call: which call, its argument (for step the action index;
\* for reset, which takes none, the number of steps of the episode it ends),
\* the exception raised ("none": it returned) and what it returned.
Returned(call, arg, err, obs, reward, done, legal) ==
    [call |-> call, arg |-> arg, err |-> err, obs |-> obs,
     reward |-> reward, done |-> done, legal |-> legal]

\* ------------------------------------------------------------- catalog
\* list(itertools.product(s, t)): s-major, t-minor.
Product(s, t) ==
    [k \in 1..(Len(s) * Len(t)) |->
        <<s[((k - 1) \div Len(t)) + 1], t[((k - 1) % Len(t)) + 1]>>]

\* list(zip(range(len(s)), s)).
Enumerate(s) == [k \in 1..Len(s) |-> <<k - 1, s[k]>>]

DistinctPair(x) == x[1] # x[2]

\* MakeFullActionList without the filter that drops the pairs (a, a).
MakeFullActionListAllPairs(q1, q2, n) ==
    LET q1_actions == Product(q1, Range(n))
        q2_actions == Product(q2, Product(Range(n), Range(n)))
    IN Enumerate(IF n > 1 THEN q1_actions \o q2_actions ELSE q1_actions)

\* MakeFullActionList with the two lists concatenated the other way round.
MakeFullActionListTwoFirst(q1, q2, n) ==
    LET q1_actions == Product(q1, Range(n))
        q2_actions == Product(q2, SelectSeq(Product(Range(n), Range(n)), DistinctPair))
    IN Enumerate(IF n > 1 THEN q2_actions \o q1_actions ELSE q1_actions)

MakeFullActionList(q1, q2, n) ==
    LET q1_actions == Product(q1, Range(n))
        all_2q_permutations == Product(Range(n), Range(n))
        coherent_2q_permutations == SelectSeq(all_2q_permutations, DistinctPair)
        q2_actions == Product(q2, coherent_2q_permutations)
        all_actions == IF n > 1 THEN q1_actions \o q2_actions ELSE q1_actions
    IN Enumerate(all_actions)

\* ------------------------------------------------------ gate application
\* qbit_num_to_tensor_index without the doubling.
QbitNumToTensorIndexPlain(n) == n

QbitNumToTensorIndex(n) == n * 2

\* apply_1q_gate leaving the gate's output axis last.
Axes1qNoReinsert(dim, qb_idx) == Range(dim)

\* The axis order apply_1q_gate hands to np.transpose.
Axes1q(dim, qb_idx) == DropLast(ListInsert(Range(dim), qb_idx, dim - 1), 1)

\* apply_1q_gate computing the product and dropping it.
Apply1qGateDiscarded(curr, gate, qbit) == curr

Apply1qGate(curr, gate, qbit) ==
    LET qb_idx == QbitNumToTensorIndex(qbit)
        dim == Ndim(curr)
        tensored_res == TensorDot(curr, gate, <<qb_idx>>, <<1>>)
    IN Transpose(tensored_res, Axes1q(dim, qb_idx))

\* apply_2q_gate without the exchange of first and second when idx_a > idx_b.
Axes2qNoExchange(dim, idx_a, idx_b) ==
    LET smaller == IF idx_a < idx_b THEN idx_a ELSE idx_b
        bigger == IF idx_a < idx_b THEN idx_b ELSE idx_a
    IN DropLast(ListInsert(ListInsert(Range(dim), smaller, dim - 2), bigger, dim - 1), 2)

\* The axis order apply_2q_gate hands to np.transpose.
Axes2q(dim, idx_a, idx_b) ==
    LET smaller == IF idx_a < idx_b THEN idx_a ELSE idx_b
        bigger == IF idx_a < idx_b THEN idx_b ELSE idx_a
        first == IF idx_a < idx_b THEN dim - 2 ELSE dim - 1
        second == IF idx_a < idx_b THEN dim - 1 ELSE dim - 2
    IN DropLast(ListInsert(ListInsert(Range(dim), smaller, first), bigger, second), 2)

Apply2qGate(curr, gate, qbitA, qbitB) ==
    LET idx_a == QbitNumToTensorIndex(qbitA)
        idx_b == QbitNumToTensorIndex(qbitB)
        dim == Ndim(curr)
        tensored_res == TensorDot(curr, gate, <<idx_a, idx_b>>, <<1, 3>>)
    IN Transpose(tensored_res, Axes2q(dim, idx_a, idx_b))

\* ---------------------------------------------------------- observation
\* [el for tup in zip(range(n), range(n, 2 * n)) for el in tup]
ObsAxes(n) ==
    [k \in 1..(2 * n) |-> IF k % 2 = 1 THEN (k - 1) \div 2 ELSE n + (k - 2) \div 2]

RECURSIVE Pow2(_)
Pow2(n) == IF n = 0 THEN 1 ELSE 2 * Pow2(n - 1)

GetObservation(curr, n) ==
    LET unitary == Reshape(Transpose(curr, ObsAxes(n)), <<Pow2(n), Pow2(n)>>)
    IN Stack2(RealPart(unitary), ImagPart(unitary))

HaveWinner(curr, target, t) == AllClose(curr, target, t)

\* ---------------------------------------------------------- constructor
\* The reward and tolerance Game.__init__ passes, and GateSynthesis's defaults.
GameParams == [rwd |-> 100, tol |-> [num |-> 1, den |-> 1000]]
DefaultParams == [rwd |-> 1000, tol |-> [num |-> 1, den |-> 100000]]

\* GateSynthesis.__init__(q1_gates, q2_gates, rwd, max_steps, init_uop,
\* target_uop, tol).
Construct(q1, q2, rwd, maxs, init_uop, target_uop, t) ==
    /\ init_unitary_op = init_uop
    /\ curr_unitary_op = init_uop
    /\ target_unitary_op = target_uop
    /\ nb_qbits = Ndim(init_uop) \div 2
    /\ final_reward = rwd
    /\ q1_gates = q1
    /\ q2_gates = q2
    /\ full_action_list = MakeFullActionList(q1, q2, Ndim(init_uop) \div 2)
    /\ nb_steps = 0
    /\ max_steps = maxs
    /\ tol = t
    /\ distance_history = <<>>
    /\ ret = Returned("init", 0, "none", NoObs, 0, FALSE, <<>>)
    /\ steps_taken = 0
    /\ prev_unitary_op = init_uop

\* ----------------------------------------------------------------- reset
\* reset without the assignment that restores the operator.
ResetKeepsOperator ==
    /\ nb_steps' = 0
    /\ distance_history' = <<>>
    /\ ret' = Returned("reset", steps_taken, "none",
                       GetObservation(curr_unitary_op, nb_qbits), 0, FALSE, <<>>)
    /\ steps_taken' = 0
    /\ prev_unitary_op' = curr_unitary_op
    /\ UNCHANGED <<curr_unitary_op, config, pair>>

Reset ==
    /\ curr_unitary_op' = init_unitary_op
    /\ nb_steps' = 0
    /\ distance_history' = <<>>
    /\ ret' = Returned("reset", steps_taken, "none",
                       GetObservation(curr_unitary_op', nb_qbits), 0, FALSE, <<>>)
    /\ steps_taken' = 0
    /\ prev_unitary_op' = init_unitary_op
    /\ UNCHANGED <<config, pair>>

\* ------------------------------------------------------------------ step
\* Python's lst[idx] is defined for -len(lst) <= idx < len(lst) and counts a
\* negative idx from the end; any other idx raises IndexError.
PyIndexOk(lst, idx) == -Len(lst) <= idx /\ idx < Len(lst)
PyIndex(lst, idx) == IF idx >= 0 THEN lst[idx + 1] ELSE lst[Len(lst) + idx + 1]

\* step dispatching on the number of axes of the gate.
GateSupportedByRank(gate) == Ndim(gate) = 4 \/ Ndim(gate) = 2

\* The shapes step dispatches on; any other raises ValueError.
GateSupported(gate) == gate.shape = <<2, 2, 2, 2>> \/ gate.shape = <<2, 2>>

\* The operator after the gate of a catalog entry has been applied, by the
\* gate's shape.
Dispatch(curr, gate, qbit) ==
    IF gate.shape = <<2, 2, 2, 2>> THEN Apply2qGate(curr, gate, qbit[1], qbit[2])
    ELSE Apply1qGate(curr, gate, qbit)

\* The done rule with >= for >.
StepDoneOffByOne(winner, steps, maxs) == winner \/ (steps >= maxs)

StepDone(winner, steps, maxs) == winner \/ (steps > maxs)

StepReward(winner, rwd) == IF winner THEN rwd ELSE 0

\* Most step calls followed in one episode: enough to pass every max_steps.
MaxCalls == MaxSteps + 1

\* The action indices tried: every index of the catalog, the first index
\* past its end, and the negative indices -1, -len and -len - 1.
StepInputs ==
    (0..Len(full_action_list))
        \cup {-1, -Len(full_action_list), -(Len(full_action_list) + 1)}

StepWith(action_idx) ==
    IF ~PyIndexOk(full_action_list, action_idx)
    THEN /\ ret' = Returned("step", action_idx, "IndexError", NoObs, 0, FALSE, <<>>)
         /\ UNCHANGED <<curr_unitary_op, nb_steps, distance_history, steps_taken,
                        prev_unitary_op, config, pair>>
    ELSE LET entry == PyIndex(full_action_list, action_idx)
             gate == Gate(entry[2][1])
             qbit == entry[2][2]
         IN IF ~GateSupported(gate)
            THEN /\ ret' = Returned("step", action_idx, "ValueError", NoObs, 0, FALSE, <<>>)
                 /\ UNCHANGED <<curr_unitary_op, nb_steps, distance_history,
                                steps_taken, prev_unitary_op, config, pair>>
            ELSE \E res \in {Dispatch(curr_unitary_op, gate, qbit)} :
                 LET winner == HaveWinner(res, target_unitary_op, tol)
                 IN /\ curr_unitary_op' = res
                    /\ ret' = Returned("step", action_idx, "none",
                                       GetObservation(res, nb_qbits),
                                       StepReward(winner, final_reward),
                                       StepDone(winner, nb_steps, max_steps), <<>>)
                    /\ steps_taken' = steps_taken + 1
                    /\ prev_unitary_op' = curr_unitary_op
                    /\ UNCHANGED <<nb_steps, distance_history, config, pair>>

Step ==
    /\ steps_taken < MaxCalls
    /\ \E action_idx \in StepInputs : StepWith(action_idx)

\* --------------------------------------------------------- legal_actions
\* legal_actions leaving out the last index.
LegalActionsShort ==
    /\ ret' = Returned("legal_actions", 0, "none", NoObs, 0, FALSE,
                       Range(Len(full_action_list) - 1))
    /\ UNCHANGED <<curr_unitary_op, nb_steps, distance_history, steps_taken,
                   prev_unitary_op, config, pair>>

\* Game.legal_actions on the wrapped environment.
LegalActions ==
    /\ ret' = Returned("legal_actions", 0, "none", NoObs, 0, FALSE,
                       Range(Len(full_action_list)))
    /\ UNCHANGED <<curr_unitary_op, nb_steps, distance_history, steps_taken,
                   prev_unitary_op, config, pair>>

\* -------------------------------------------------------- specifications
\* Episodes: the environments whose episodes are followed step by step.
EpisodeSetups ==
    { [q1 |-> <<"I", "X">>, q2 |-> <<>>, p |-> GameParams,
       init |-> IdentityOp(1), target |-> GateX],
      [q1 |-> <<"X", "Y", "Z">>, q2 |-> <<>>, p |-> DefaultParams,
       init |-> IdentityOp(1), target |-> GateY],
      [q1 |-> <<"I", "X">>, q2 |-> <<"SWAP">>, p |-> GameParams,
       init |-> IdentityOp(2), target |-> SwapOp] }

Init ==
    /\ \E e \in EpisodeSetups, maxs \in (-1)..MaxSteps :
          Construct(e.q1, e.q2, e.p.rwd, maxs, e.init, e.target, e.p.tol)
    /\ NoPair

Next == Step \/ Reset \/ LegalActions

Spec == Init /\ [][Next]_vars

\* Construction alone, over every qubit count and every pair of gate lists
\* within the bounds, followed by the calls that apply no gate.
RECURSIVE SeqsUpTo(_, _)
SeqsUpTo(S, n) ==
    IF n = 0 THEN {<<>>}
    ELSE LET shorter == SeqsUpTo(S, n - 1)
         IN shorter \cup {Append(s, x) : s \in shorter, x \in S}

InitCatalog ==
    /\ \E n \in 1..MaxQubits,
          q1 \in SeqsUpTo({"I", "X"}, MaxGates),
          q2 \in SeqsUpTo({"SWAP", "CNOT"}, MaxGates) :
           Construct(q1, q2, GameParams.rwd, MaxSteps, IdentityOp(n), IdentityOp(n),
                     GameParams.tol)
    /\ NoPair

NextCatalog == Reset \/ LegalActions

SpecCatalog == InitCatalog /\ [][NextCatalog]_vars

\* Gate application: environments on one, two and three qubits, from the
\* identity and from an operator with pairwise different entries, and one
\* whose gate lists hold arrays that are no qubit gate; every catalog entry
\* is applied, up to MaxApplications in a row.
ApplySetups ==
    { [q1 |-> <<"I", "X", "Y", "Z", "S", "Sdg">>, q2 |-> <<>>,
       inits |-> {IdentityOp(1), CountingOp(1)}],
      [q1 |-> <<"I", "S", "Sdg">>, q2 |-> <<"CNOT", "SWAP">>,
       inits |-> {IdentityOp(2), CountingOp(2)}],
      [q1 |-> <<"I", "S", "Sdg">>, q2 |-> <<>>, inits |-> {CountingOp(3)}],
      [q1 |-> <<>>, q2 |-> <<"CNOT">>, inits |-> {CountingOp(3)}],
      [q1 |-> <<"X", "Ket0", "Rank3", "CNOTMatrix">>, q2 |-> <<"SWAP">>,
       inits |-> {IdentityOp(2)}] }

InitApply ==
    /\ \E e \in ApplySetups :
          \E init \in e.inits :
             Construct(e.q1, e.q2, GameParams.rwd, MaxSteps, init,
                       IdentityOp(Ndim(init) \div 2), GameParams.tol)
    /\ NoPair

\* step with an index of the catalog.
Apply ==
    /\ steps_taken < MaxApplications
    /\ \E action_idx \in 0..(Len(full_action_list) - 1) : StepWith(action_idx)

NextApply == Apply \/ Reset

SpecApply == InitApply /\ [][NextApply]_vars

\* ------------------------------------------------------ two environments
\* Two GateSynthesis objects built from the same arguments.  Arrays are
\* objects: heap[a] is the array at address a, and a field that holds an
\* array holds its address, so that two fields can name one array.  The
\* caller's init_uop sits at address 1 and target_uop at address 2; both
\* environments are handed these same two objects.  The gates are shared as
\* well and are only read (np.tensordot reads its arguments).  envs[i] holds
\* the fields of environment i and what its last call returned; alone.run[i]
\* is environment i as the single environment above has it (arrays by value),
\* taking the calls made on environment i and no other; alone.last is the
\* environment called last.

\* The variables of the single environment, which the calls on the pair
\* leave alone.
single == <<curr_unitary_op, nb_steps, distance_history, ret, steps_taken,
            prev_unitary_op, config>>

InitAddress == 1
TargetAddress == 2

\* __init__ of one of the two: init_unitary_op and curr_unitary_op name the
\* caller's array, the catalog is a list of its own.
ConstructShared(q1, q2, rwd, maxs, t, h) ==
    [init_unitary_op |-> InitAddress,
     curr_unitary_op |-> InitAddress,
     target_unitary_op |-> TargetAddress,
     nb_qbits |-> Ndim(h[InitAddress]) \div 2,
     final_reward |-> rwd,
     full_action_list |-> MakeFullActionList(q1, q2, Ndim(h[InitAddress]) \div 2),
     nb_steps |-> 0,
     max_steps |-> maxs,
     tol |-> t,
     distance_history |-> <<>>,
     ret |-> Returned("init", 0, "none", NoObs, 0, FALSE, <<>>)]

\* The same environment with its arrays by value.
ConstructAlone(init_uop, target_uop) ==
    [init_unitary_op |-> init_uop,
     curr_unitary_op |-> init_uop,
     target_unitary_op |-> target_uop,
     nb_steps |-> 0,
     distance_history |-> <<>>,
     ret |-> Returned("init", 0, "none", NoObs, 0, FALSE, <<>>)]

\* The addresses some field still names, and the heap without the arrays no
\* field names (an array is freed with its last reference): <<heap, envs>>
\* with the addresses renumbered in order.
Live(es) == {InitAddress, TargetAddress} \cup {es[k].curr_unitary_op : k \in 1..Len(es)}
NewAddress(a, live) == Cardinality({b \in live : b <= a})
Collect(h, es) ==
    LET live == Live(es)
    IN << [k \in 1..Cardinality(live) |->
              h[CHOOSE a \in live : NewAddress(a, live) = k]],
          [k \in 1..Len(es) |->
              [es[k] EXCEPT !.curr_unitary_op = NewAddress(@, live)]] >>

\* self.curr_unitary_op = res written into the array the field names.
StoreResultInPlace(h, es, i, res) ==
    << [h EXCEPT ![es[i].curr_unitary_op] = res], es >>

\* self.curr_unitary_op = res, res being the array np.tensordot made (seen
\* through np.transpose): the field of environment i names the new array.
StoreResult(h, es, i, res) ==
    Collect(Append(h, res), [es EXCEPT ![i].curr_unitary_op = Len(h) + 1])

\* reset() on environment i.
PairReset(i) ==
    LET stored == Collect(heap, [envs EXCEPT ![i].curr_unitary_op = envs[i].init_unitary_op])
        h == stored[1]
        es == stored[2]
        a == alone.run[i]
    IN /\ heap' = h
       /\ envs' = [es EXCEPT
                     ![i].nb_steps = 0,
                     ![i].distance_history = <<>>,
                     ![i].ret = Returned("reset", 0, "none",
                                         GetObservation(h[es[i].curr_unitary_op],
                                                        es[i].nb_qbits),
                                         0, FALSE, <<>>)]
       /\ alone' = [run |-> [alone.run EXCEPT
                               ![i].curr_unitary_op = a.init_unitary_op,
                               ![i].nb_steps = 0,
                               ![i].distance_history = <<>>,
                               ![i].ret = Returned("reset", 0, "none",
                                                   GetObservation(a.init_unitary_op,
                                                                  envs[i].nb_qbits),
                                                   0, FALSE, <<>>)],
                     last |-> i]
       /\ UNCHANGED single

\* What step(action_idx) returns and leaves as operator, arrays by value:
\* curr the operator, e the other fields.
StepValue(curr, target, e, action_idx) ==
    IF ~PyIndexOk(e.full_action_list, action_idx)
    THEN [curr |-> curr,
          ret |-> Returned("step", action_idx, "IndexError", NoObs, 0, FALSE, <<>>)]
    ELSE LET entry == PyIndex(e.full_action_list, action_idx)
             gate == Gate(entry[2][1])
             qbit == entry[2][2]
         IN IF ~GateSupported(gate)
            THEN [curr |-> curr,
                  ret |-> Returned("step", action_idx, "ValueError", NoObs, 0,
                                   FALSE, <<>>)]
            ELSE LET res == Dispatch(curr, gate, qbit)
                     winner == HaveWinner(res, target, e.tol)
                 IN [curr |-> res,
                     ret |-> Returned("step", action_idx, "none",
                                      GetObservation(res, e.nb_qbits),
                                      StepReward(winner, e.final_reward),
                                      StepDone(winner, e.nb_steps, e.max_steps),
                                      <<>>)]

\* step(action_idx) on environment i.
PairStep(i, action_idx) ==
    \E out \in {StepValue(heap[envs[i].curr_unitary_op],
                           heap[envs[i].target_unitary_op], envs[i], action_idx)} :
      LET stored == IF out.ret.err = "none"
                    THEN StoreResult(heap, envs, i, out.curr)
                    ELSE <<heap, envs>>
          a == alone.run[i]
          solo == StepValue(a.curr_unitary_op, a.target_unitary_op,
                            [envs[i] EXCEPT !.nb_steps = a.nb_steps], action_idx)
      IN /\ heap' = stored[1]
         /\ envs' = [stored[2] EXCEPT ![i].ret = out.ret]
         /\ alone' = [run |-> [alone.run EXCEPT ![i].curr_unitary_op = solo.curr,
                                                ![i].ret = solo.ret],
                       last |-> i]
         /\ UNCHANGED single

PairSetups ==
    { [q1 |-> <<"I", "X">>, q2 |-> <<>>, init |-> IdentityOp(1), target |-> GateX],
      [q1 |-> <<"X", "Z">>, q2 |-> <<>>, init |-> CountingOp(1), target |-> GateY] }

InitPair ==
    \E e \in PairSetups :
        /\ Construct(e.q1, e.q2, GameParams.rwd, MaxSteps, e.init, e.target,
                     GameParams.tol)
        /\ heap = <<e.init, e.target>>
        /\ envs = [i \in 1..2 |->
                     ConstructShared(e.q1, e.q2, GameParams.rwd, MaxSteps,
                                     GameParams.tol, heap)]
        /\ alone = [run |-> [i \in 1..2 |-> ConstructAlone(e.init, e.target)],
                     last |-> 0]

PairResets == \E i \in 1..2 : PairReset(i)

PairSteps ==
    \E i \in 1..2 :
        \E action_idx \in 0..Len(envs[i].full_action_list) : PairStep(i, action_idx)

NextPair == PairSteps \/ PairResets

SpecPair == InitPair /\ [][NextPair]_vars

\* ------------------------------------------------------------------ claims
\* A step call that returned (raised nothing).
Stepped == ret.call = "step" /\ ret.err = "none"

\* have_winner() in the current state.
Winner == HaveWinner(curr_unitary_op, target_unitary_op, tol)

\* C1: episode exhaustion.  After every step that leaves the operator off the
\* target, the reward returned is 0, and done is returned as soon as more
\* than max_steps steps have been taken since the episode began.
C1_EpisodeExhaustion ==
    (Stepped /\ ~Winner) =>
        /\ ret.reward = 0
        /\ (steps_taken > max_steps => ret.done)

\* An index of the catalog.
InCatalog(idx) == 0 <= idx /\ idx < Len(full_action_list)

\* C2: bounds check.  A step call whose action index lies outside
\* 0 <= index < catalog size raises the index error and changes neither the
\* operator nor the step counter.
C2_BoundsCheck ==
    [][(ret'.call = "step" /\ ~InCatalog(ret'.arg))
        => /\ ret'.err = "IndexError"
           /\ curr_unitary_op' = curr_unitary_op
           /\ nb_steps' = nb_steps]_vars

\* C3: reward and done rule.  A step that returns gives reward final_reward
\* when the operator it leaves matches the target and 0 otherwise, and done
\* exactly when it matches or the nb_steps counter exceeds max_steps; so a
\* nonzero reward comes only with done, and no third reward value exists.
C3_RewardDoneRule ==
    Stepped =>
        /\ ret.reward = (IF Winner THEN final_reward ELSE 0)
        /\ (ret.reward = final_reward <=> Winner)
        /\ ret.done = (Winner \/ nb_steps > max_steps)
        /\ (ret.reward # 0 => ret.done)
        /\ ret.reward \in {0, final_reward}

\* A step has just returned reward and done on reaching the target, in an
\* episode whose step budget alone would not end it.
C3_Witness ==
    /\ Stepped /\ Winner /\ max_steps >= 0
    /\ ret.reward = final_reward /\ ret.done

\* C4: catalog cardinality.  The catalog has |G1|*N + |G2|*N*(N-1) entries
\* (no two-qubit entry when N = 1, none at all when both terms are 0).
C4_CatalogCardinality ==
    Len(full_action_list)
        = Len(q1_gates) * nb_qbits + Len(q2_gates) * nb_qbits * (nb_qbits - 1)

\* Three qubits and two gates of each kind: 6 + 12 entries.
C4_Witness ==
    /\ nb_qbits = 3 /\ Len(q1_gates) = 2 /\ Len(q2_gates) = 2
    /\ Len(full_action_list) = 18

\* Rank of (a, b) among the ordered pairs of distinct qubits below n, in
\* lexicographic order.
PairRank(a, b, n) ==
    Cardinality({p \in (0..(n - 1)) \X (0..(n - 1)) :
                    /\ p[1] # p[2]
                    /\ (p[1] < a \/ (p[1] = a /\ p[2] < b))})

\* C5: catalog order.  Entry i carries index i; the j-th single-qubit gate on
\* qubit q is entry j*N + q; the j-th two-qubit gate on the ordered pair
\* (a, b), a # b, is entry |G1|*N + j*N*(N-1) + rank(a, b); no entry pairs a
\* qubit with itself.
C5_CatalogOrder ==
    LET n == nb_qbits
        k1 == Len(q1_gates) * n
    IN /\ \A i \in 1..Len(full_action_list) : full_action_list[i][1] = i - 1
       /\ \A j \in 1..Len(q1_gates), q \in 0..(n - 1) :
             full_action_list[(j - 1) * n + q + 1][2] = <<q1_gates[j], q>>
       /\ n > 1 =>
             /\ \A j \in 1..Len(q2_gates), a \in 0..(n - 1), b \in 0..(n - 1) :
                   a # b =>
                     full_action_list[k1 + (j - 1) * n * (n - 1)
                                         + PairRank(a, b, n) + 1][2]
                         = <<q2_gates[j], <<a, b>> >>
             /\ \A i \in (k1 + 1)..Len(full_action_list) :
                   full_action_list[i][2][2][1] # full_action_list[i][2][2][2]

\* Three qubits, two different gates of each kind: the second two-qubit gate
\* on the pair (2, 0) is the entry at 2*3 + 1*6 + 4 = 16.
C5_Witness ==
    /\ nb_qbits = 3 /\ q1_gates = <<"I", "X">> /\ q2_gates = <<"SWAP", "CNOT">>
    /\ full_action_list[17] = <<16, <<"CNOT", <<2, 0>> >> >>

\* The encoding of the X gate: real layer X, imaginary layer zero.
ObsOfX == [shape |-> <<2, 2, 2>>, el |-> <<0, 1, 1, 0, 0, 0, 0, 0>>]

\* The first step of an episode on one qubit with gates (identity, X), from
\* the identity towards X, has applied X to qubit 0.
C6_Case ==
    /\ nb_qbits = 1 /\ q1_gates = <<"I", "X">>
    /\ init_unitary_op = GateI /\ target_unitary_op = GateX
    /\ Stepped /\ steps_taken = 1
    /\ PyIndex(full_action_list, ret.arg)[2] = <<"X", 0>>

\* C6: end-to-end win.  In that case the step returns done, the reward
\* final_reward and the encoding of X.
C6_EndToEndWin ==
    C6_Case => (ret.done /\ ret.reward = final_reward /\ ret.obs = ObsOfX)

C6_Witness == C6_Case /\ ret.done /\ ret.arg = 1

\* C7: terminal states are closed.  The step call that follows a step which
\* returned done is rejected and changes neither the operator nor the counter
\* (both calls with an index of the catalog, so that the bounds check plays
\* no part).
C7_TerminalClosed ==
    [][(Stepped /\ ret.done /\ InCatalog(ret.arg)
          /\ ret'.call = "step" /\ InCatalog(ret'.arg))
        => /\ ret'.err # "none"
           /\ curr_unitary_op' = curr_unitary_op
           /\ nb_steps' = nb_steps]_vars

\* C8: reset.  No call changes the retained initial operator or the target,
\* and a reset leaves the operator equal to the initial operator, the counter
\* at 0, the history empty, and returns that operator's encoding.
C8_ResetRestores ==
    [][/\ init_unitary_op' = init_unitary_op
       /\ target_unitary_op' = target_unitary_op
       /\ ret'.call = "reset" =>
             /\ curr_unitary_op' = init_unitary_op
             /\ nb_steps' = 0
             /\ distance_history' = <<>>
             /\ ret'.err = "none"
             /\ ret'.obs = GetObservation(init_unitary_op, nb_qbits)]_vars

\* A reset has ended an episode of several steps, the operator is the initial
\* one again and differs from the target.
C8_Witness ==
    /\ ret.call = "reset" /\ ret.arg > 1
    /\ curr_unitary_op = init_unitary_op /\ ~Winner

\* C9: legal_actions.  No call changes the catalog, and legal_actions returns
\* the indices 0..K-1 of the catalog and changes nothing of the episode.
C9_LegalActionsFull ==
    [][/\ full_action_list' = full_action_list
       /\ ret'.call = "legal_actions" =>
             /\ Len(ret'.legal) = Len(full_action_list)
             /\ \A k \in 1..Len(full_action_list) : ret'.legal[k] = k - 1
             /\ curr_unitary_op' = curr_unitary_op
             /\ nb_steps' = nb_steps
             /\ distance_history' = distance_history
             /\ init_unitary_op' = init_unitary_op
             /\ target_unitary_op' = target_unitary_op]_vars

\* legal_actions has been called in a won episode and returned six indices.
C9_Witness ==
    /\ ret.call = "legal_actions" /\ steps_taken > 0 /\ Winner
    /\ ret.legal = <<0, 1, 2, 3, 4, 5>>

\* The D x D identity over the D x D zero matrix, as a (2, D, D) array.
IdentityObs(d) ==
    [shape |-> <<2, d, d>>,
     el |-> [f \in 1..(2 * d * d) |->
               IF f <= d * d /\ (f - 1) \div d = (f - 1) % d THEN 1 ELSE 0]]

\* C10: observation of the identity.  With the n-qubit identity as initial
\* operator, the observation reset returns is the 2^n x 2^n identity matrix
\* over the zero matrix.
C10_IdentityObservation ==
    (ret.call = "reset" /\ init_unitary_op = IdentityOp(nb_qbits))
        => ret.obs = IdentityObs(Pow2(nb_qbits))

\* The catalog entry <<gate, qubit(s)>> a step call with a catalog index
\* resolved.
EntryOf(r) == full_action_list[r.arg + 1][2]

\* A step call that returned and applied a single-qubit (two-qubit) gate.
Applied1q(r) ==
    /\ r.call = "step" /\ r.err = "none" /\ InCatalog(r.arg)
    /\ Gate(EntryOf(r)[1]).shape = <<2, 2>>
Applied2q(r) ==
    /\ r.call = "step" /\ r.err = "none" /\ InCatalog(r.arg)
    /\ Gate(EntryOf(r)[1]).shape = <<2, 2, 2, 2>>

\* C11: no-op law.  A step that applies the single-qubit identity gate, to
\* any qubit of any operator, leaves the operator as it was, shape and
\* entries.
C11_NoOpLaw ==
    [][(Applied1q(ret') /\ EntryOf(ret')[1] = "I")
        => curr_unitary_op' = curr_unitary_op]_vars

\* The identity gate has been applied to the last of three qubits of an
\* operator with pairwise different entries.
C11_Witness ==
    /\ Applied1q(ret) /\ EntryOf(ret) = <<"I", 2>> /\ nb_qbits = 3
    /\ curr_unitary_op = CountingOp(3) /\ prev_unitary_op = CountingOp(3)

\* The inverse of a single-qubit gate, by name.
InverseGate(name) ==
    CASE name = "S" -> "Sdg"
      [] name = "Sdg" -> "S"
      [] OTHER -> name

\* C12: round trip.  When a step applies a single-qubit gate g to qubit q
\* and the next step applies the inverse of g to the same qubit q, the
\* operator is again what it was before the first of the two.
C12_RoundTrip ==
    [][(/\ Applied1q(ret) /\ Applied1q(ret')
        /\ steps_taken' = steps_taken + 1
        /\ EntryOf(ret')[1] = InverseGate(EntryOf(ret)[1])
        /\ EntryOf(ret')[2] = EntryOf(ret)[2])
        => curr_unitary_op' = prev_unitary_op]_vars

\* S and then its inverse have been applied to the middle one of three
\* qubits: the operator changed in between and is the initial one again.
C12_Witness ==
    /\ Applied1q(ret) /\ EntryOf(ret) = <<"Sdg", 1>> /\ nb_qbits = 3
    /\ steps_taken = 2 /\ prev_unitary_op # curr_unitary_op
    /\ curr_unitary_op = init_unitary_op

\* The place an operator axis p takes among the axes np.tensordot leaves
\* when the axes in the set gone are summed.
PlaceLeft(p, gone) == p - Cardinality({x \in gone : x < p})

\* C17: single-qubit axis bookkeeping.  After a step that applied a
\* single-qubit gate to qubit q of n qubits, the axis order apply_1q_gate
\* used is a permutation of 0..2n-1 with the gate's output axis (the last
\* axis of the contraction, 2n - 1) at position 2q and every other operator
\* axis at its own position; the operator has shape (2,) x 2n.
C17_Axes1q ==
    Applied1q(ret) =>
        LET q == EntryOf(ret)[2]
            dim == 2 * nb_qbits
            axes == Axes1q(dim, QbitNumToTensorIndex(q))
        IN /\ IsPermutation(axes, dim)
           /\ axes[2 * q + 1] = dim - 1
           /\ \A p \in (0..(dim - 1)) \ {2 * q} :
                 axes[p + 1] = PlaceLeft(p, {2 * q})
           /\ curr_unitary_op.shape = [k \in 1..dim |-> 2]

\* A single-qubit gate has been applied to the middle one of three qubits.
C17_Witness ==
    /\ Applied1q(ret) /\ EntryOf(ret) = <<"S", 1>> /\ nb_qbits = 3
    /\ curr_unitary_op # prev_unitary_op

\* C18: two-qubit axis reinsertion.  After a step that applied a two-qubit
\* gate to the ordered pair (a, b) of n qubits, the axis order apply_2q_gate
\* used is a permutation of 0..2n-1 with the first output axis of the
\* contraction (2n - 2, qubit a's) at position 2a, the second (2n - 1, qubit
\* b's) at position 2b, and every other operator axis at its own position;
\* the operator has rank 2n.
C18_Axes2q ==
    Applied2q(ret) =>
        LET a == EntryOf(ret)[2][1]
            b == EntryOf(ret)[2][2]
            dim == 2 * nb_qbits
            axes == Axes2q(dim, QbitNumToTensorIndex(a), QbitNumToTensorIndex(b))
        IN /\ IsPermutation(axes, dim)
           /\ axes[2 * a + 1] = dim - 2
           /\ axes[2 * b + 1] = dim - 1
           /\ \A p \in (0..(dim - 1)) \ {2 * a, 2 * b} :
                 axes[p + 1] = PlaceLeft(p, {2 * a, 2 * b})
           /\ Ndim(curr_unitary_op) = dim

\* A two-qubit gate has been applied to the pair (2, 0) of three qubits.
C18_Witness ==
    /\ Applied2q(ret) /\ EntryOf(ret) = <<"CNOT", <<2, 0>> >> /\ nb_qbits = 3
    /\ curr_unitary_op # prev_unitary_op

\* C13: order sensitivity.  When a step has applied the controlled-NOT,
\* given with axes (out-A, out-B, in-A, in-B), to the ordered pair (a, b),
\* some operator tells the pair (a, b) from the pair (b, a): the operator the
\* step started from, the identity, or the operator with pairwise different
\* entries.
C13_OrderSensitivity ==
    (Applied2q(ret) /\ EntryOf(ret)[1] = "CNOT") =>
        LET a == EntryOf(ret)[2][1]
            b == EntryOf(ret)[2][2]
        IN \/ curr_unitary_op # Apply2qGate(prev_unitary_op, GateCNOT, b, a)
           \/ \E T \in {IdentityOp(nb_qbits), CountingOp(nb_qbits)} :
                 Apply2qGate(T, GateCNOT, a, b) # Apply2qGate(T, GateCNOT, b, a)

\* The index tuple i with the entries at axes pa and pb replaced by x and y.
WithAxes(i, pa, x, pb, y) ==
    [k \in 1..Len(i) |-> IF k = pa + 1 THEN x ELSE IF k = pb + 1 THEN y ELSE i[k]]

\* The operator T after the rank-4 gate g, with axes (out-A, out-B, in-A,
\* in-B), has been contracted into qubits a and b: operator axis 2a summed
\* against in-A, 2b against in-B, out-A left at 2a and out-B at 2b.
Contracted2q(T, g, a, b) ==
    [shape |-> T.shape,
     el |-> [f \in 1..Size(T.shape) |->
               LET i == UnflatIndex(T.shape, f - 1)
               IN CSum([m \in 1..4 |->
                         LET x == (m - 1) \div 2
                             y == (m - 1) % 2
                         IN CMul(At(T, WithAxes(i, 2 * a, x, 2 * b, y)),
                                 At(g, <<i[2 * a + 1], i[2 * b + 1], x, y>>))])]]

\* C19: two-qubit contraction axes.  A step that applies a rank-4 gate to
\* the pair (a, b) sums operator axis 2a against the gate's third axis and
\* operator axis 2b against its fourth, and leaves the gate's first and
\* second axes as the output axes of a and b.
C19_ContractionAxes ==
    [][Applied2q(ret')
        => curr_unitary_op'
             = Contracted2q(curr_unitary_op, Gate(EntryOf(ret')[1]),
                            EntryOf(ret')[2][1], EntryOf(ret')[2][2])]_vars

\* C16: step counting.  Every step call with an index of the catalog that
\* returns raises nb_steps by exactly 1, so that nb_steps counts the steps
\* taken since the last reset; legal_actions leaves it alone.
C16_StepCounting ==
    [][/\ (ret'.call = "step" /\ ret'.err = "none" /\ InCatalog(ret'.arg)
            /\ steps_taken' = steps_taken + 1)
          => (nb_steps' = nb_steps + 1 /\ nb_steps' = steps_taken')
       /\ ret'.call = "legal_actions" => nb_steps' = nb_steps]_vars

\* get_observation with the row axes 0, 2, ..., 2n-2 first and the column
\* axes 1, 3, ..., 2n-1 after them.
GroupedAxes(n) == [k \in 1..(2 * n) |-> IF k <= n THEN 2 * (k - 1) ELSE 2 * (k - n) - 1]

\* C20: observation axis grouping.  The axis order get_observation hands to
\* np.transpose is (0, 2, ..., 2n-2, 1, 3, ..., 2n-1), so the observation a
\* reset or a step returns is the operator with its row axes grouped before
\* its column axes, reshaped to 2^n x 2^n, real part over imaginary part.
C20_ObservationGrouping ==
    (ret.call \in {"reset", "step"} /\ ret.err = "none") =>
        /\ ObsAxes(nb_qbits) = GroupedAxes(nb_qbits)
        /\ LET unitary == Reshape(Transpose(curr_unitary_op, GroupedAxes(nb_qbits)),
                                   <<Pow2(nb_qbits), Pow2(nb_qbits)>>)
           IN ret.obs = Stack2(RealPart(unitary), ImagPart(unitary))

\* A step call that resolved a catalog entry.
Resolved(r) == r.call = "step" /\ InCatalog(r.arg)

\* C14: unsupported gate, by rank.  A step whose gate has a rank other than
\* 2 and 4 raises the unsupported-gate error and changes neither the
\* operator nor the counter; a step whose gate has rank 2 goes to
\* apply_1q_gate, one whose gate has rank 4 to apply_2q_gate.
C14_UnsupportedByRank ==
    [][Resolved(ret') =>
        LET gate == Gate(EntryOf(ret')[1])
            qbit == EntryOf(ret')[2]
        IN /\ Ndim(gate) \notin {2, 4} =>
                 /\ ret'.err = "ValueError"
                 /\ curr_unitary_op' = curr_unitary_op
                 /\ nb_steps' = nb_steps
           /\ Ndim(gate) = 2 =>
                 /\ ret'.err = "none"
                 /\ curr_unitary_op' = Apply1qGate(curr_unitary_op, gate, qbit)
           /\ Ndim(gate) = 4 =>
                 /\ ret'.err = "none"
                 /\ curr_unitary_op'
                      = Apply2qGate(curr_unitary_op, gate, qbit[1], qbit[2])]_vars

\* C14, amended: unsupported gate, by shape.  A step whose gate has a shape
\* other than (2, 2) and (2, 2, 2, 2) raises the unsupported-gate error and
\* changes neither the operator nor the counter; a step whose gate has shape
\* (2, 2) goes to apply_1q_gate, one whose gate has shape (2, 2, 2, 2) to
\* apply_2q_gate.
C14_UnsupportedByShape ==
    [][Resolved(ret') =>
        LET gate == Gate(EntryOf(ret')[1])
            qbit == EntryOf(ret')[2]
        IN /\ gate.shape \notin {<<2, 2>>, <<2, 2, 2, 2>>} =>
                 /\ ret'.err = "ValueError"
                 /\ curr_unitary_op' = curr_unitary_op
                 /\ nb_steps' = nb_steps
           /\ gate.shape = <<2, 2>> =>
                 /\ ret'.err = "none"
                 /\ curr_unitary_op' = Apply1qGate(curr_unitary_op, gate, qbit)
           /\ gate.shape = <<2, 2, 2, 2>> =>
                 /\ ret'.err = "none"
                 /\ curr_unitary_op'
                      = Apply2qGate(curr_unitary_op, gate, qbit[1], qbit[2])]_vars

\* After a step that changed the operator, a step whose gate is a 4 x 4
\* matrix has raised the unsupported-gate error.
C14_Witness ==
    /\ Resolved(ret) /\ ret.err = "ValueError"
    /\ EntryOf(ret)[1] = "CNOTMatrix"
    /\ steps_taken = 1 /\ curr_unitary_op # init_unitary_op

\* C15: instance independence.  After every call on one of two environments
\* built from the same arguments, each environment has the operator, the
\* counter and the last result it has when its own calls are run alone, and
\* the environment that was not called keeps its operator, its initial
\* operator, its catalog and its counter.
C15_InstanceIndependence ==
    [][\A i \in 1..2 :
         /\ heap'[envs'[i].curr_unitary_op] = alone'.run[i].curr_unitary_op
         /\ envs'[i].nb_steps = alone'.run[i].nb_steps
         /\ envs'[i].ret = alone'.run[i].ret
         /\ alone'.last # i =>
               /\ heap'[envs'[i].curr_unitary_op] = heap[envs[i].curr_unitary_op]
               /\ heap'[envs'[i].init_unitary_op] = heap[envs[i].init_unitary_op]
               /\ envs'[i].full_action_list = envs[i].full_action_list
               /\ envs'[i].nb_steps = envs[i].nb_steps]_vars

\* Environment 2 has been reset, so that its operator is the very array both
\* were built from, and a step on environment 1 has then left environment 1
\* with another operator.
C15_Witness ==
    /\ envs # <<>>
    /\ alone.last = 1 /\ envs[1].ret.call = "step" /\ envs[1].ret.err = "none"
    /\ envs[2].ret.call = "reset"
    /\ envs[2].curr_unitary_op = envs[2].init_unitary_op
    /\ envs[1].init_unitary_op = envs[2].init_unitary_op
    /\ heap[envs[1].curr_unitary_op] # heap[envs[2].curr_unitary_op]

====
